---- MODULE Spec2Model ----
(***************************************************************************)
(* Octopus ReadManager (src/src/read_manager.cpp): a bounded pool of open  *)
(* alignment-file readers, a per-file region index and a sample index.     *)
(*                                                                         *)
(* The pool open_readers_ is a std::map keyed by path and ORDERED BY       *)
(* detail::file_size_compare, so two paths of equal file size are the same *)
(* key to count/at/emplace/erase.  closed_readers_ is a set of paths.      *)
(***************************************************************************)
EXTENDS Integers, Sequences, FiniteSets, TLC

\* ------------------------------------------------------------------ bounds
MaxOpenFiles == 2
MaxCalls == 2

\* ------------------------------------------------------- the environment
PathOrder == <<"a", "b", "c">>
Paths == {PathOrder[i] : i \in 1..Len(PathOrder)}
GarbagePath == "?"
Samples == {"S1", "S2"}

GenomicRegion(c, b, e) == [contig |-> c, begin |-> b, end |-> e]

HeaderA == <<GenomicRegion("chr1", 0, 2)>>
HeaderB == <<GenomicRegion("chr1", 4, 6), GenomicRegion("chr2", 0, 2),
             GenomicRegion("chr1", 2, 3)>>
Headers == {HeaderA, HeaderB}

QueryRegions == {GenomicRegion("chr1", 0, 1), GenomicRegion("chr1", 1, 5),
                 GenomicRegion("chr2", 0, 1)}

\* what a file can be: the samples and the regions its header lists
FileKinds == {[samples |-> {"S1"}, regions |-> HeaderA],
              [samples |-> {"S1", "S2"}, regions |-> HeaderB],
              [samples |-> {"S2"}, regions |-> HeaderA]}

\* every region a caller can ask about: "chr3" is in no header
Contigs == {"chr1", "chr2", "chr3"}
MaxPosition == 6
AllRegions == {GenomicRegion(c, b, e) : c \in Contigs, b \in 0..MaxPosition,
                                        e \in 1..MaxPosition}
NonEmptyRegions == {r \in AllRegions : r.begin < r.end}

NoRegion == GenomicRegion("", 0, 0)
NoCall == [op |-> "none", samples |-> {}, region |-> NoRegion]
NoCigarCall == [cigar_string |-> <<>>, op |-> "none", args |-> <<>>, result |-> <<>>]
NoOptionsCall == [given |-> [regions |-> <<>>, regions_file |-> <<>>, skip_regions |-> <<>>,
                            skip_regions_file |-> <<>>], op |-> "none", result |-> <<>>]
NoScan == [reader |-> {}, order |-> <<>>]
NoThread == [pc |-> "idle", reader_paths |-> <<>>, it |-> 1, n |-> 0]
NoFrame == [num_open_readers |-> 0, num_open_reader_spaces |-> 0,
            num_requested_spaces |-> 0, num_readers_to_close |-> 0]

VARIABLES
    read_file_paths,    \* constructor argument: the catalog
    max_open_files_,
    existing,           \* the paths for which fs::exists is true
    file_size,          \* on-disk size of every path
    samples_in_file,    \* what each file's header lists
    regions_in_file,
    closed_readers_,
    open_readers_,      \* keys of the size-ordered map (a reader is its key's)
    reader_paths_containing_sample_,
    possible_regions_in_readers_,
    pc,                 \* position of the one thread using the manager
    call,               \* the public call in progress
    reader_paths,       \* the range [first, last) handed to open_readers
    it,                 \* open_readers' position in it (1-based)
    frame,              \* locals of open_readers
    n,                  \* close_readers' countdown
    evicted,            \* residents closed so far by the call in progress
    opened,             \* paths handed to make_reader so far by that call
    result,             \* a fetch's result so far
    error,              \* what() of the std::runtime_error of setup, in lines
    other,              \* a second thread inside fetch_reads(sample, region)
    scan,               \* the header scan of construction, file by file
    cigar,              \* a call of cigar_string's functions: arguments and result
    options,            \* a call of get_search_regions: arguments and result
    history             \* audit of the calls made since construction

config == <<read_file_paths, max_open_files_, existing, file_size, samples_in_file,
            regions_in_file>>
indexes == <<reader_paths_containing_sample_, possible_regions_in_readers_>>
pool == <<closed_readers_, open_readers_>>
locals == <<reader_paths, it, frame, n, evicted, opened, result>>
utilities == <<cigar, options>>
vars == <<config, utilities, indexes, pool, pc, call, locals, error, other, scan, history>>

\* ---------------------------------------------------------------- helpers
Range(s) == {s[i] : i \in 1..Len(s)}

Min(a, b) == IF a <= b THEN a ELSE b

Max(a, b) == IF a >= b THEN a ELSE b

\* every enumeration of a finite set: the iteration order of an unordered
\* container
RECURSIVE AnyOrder(_)
AnyOrder(S) ==
    IF S = {} THEN {<<>>}
    ELSE UNION {{<<x>> \o t : t \in AnyOrder(S \ {x})} : x \in S}

\* s without its first occurrence of x
RemoveOne(s, x) ==
    LET k == CHOOSE i \in 1..Len(s) : s[i] = x /\ \A j \in 1..(i - 1) : s[j] # x
    IN  SubSeq(s, 1, k - 1) \o SubSeq(s, k + 1, Len(s))

\* every rearrangement of a sequence
RECURSIVE Rearranged(_)
Rearranged(s) ==
    IF s = <<>> THEN {<<>>}
    ELSE UNION {{<<x>> \o t : t \in Rearranged(RemoveOne(s, x))} : x \in Range(s)}

\* ---------------------------------------------------- the size-ordered map
file_size_compare(lhs, rhs) == file_size[lhs] < file_size[rhs]

Equivalent(lhs, rhs) == ~file_size_compare(lhs, rhs) /\ ~file_size_compare(rhs, lhs)

MapCount(m, key) == Cardinality({k \in m : Equivalent(k, key)})

MapEmplace(m, key) == IF MapCount(m, key) > 0 THEN m ELSE m \cup {key}

MapErase(m, key) == {k \in m : ~Equivalent(k, key)}

MapBegin(m) == CHOOSE k \in m : \A o \in m : ~file_size_compare(o, k)

\* open_readers_.at(key): the path whose reader the map holds under the key
MapAt(m, key) == CHOOSE k \in m : Equivalent(k, key)

is_open(reader_path) == MapCount(open_readers_, reader_path) > 0

\* ------------------------------------------------------------ region index
ContigRegionLess(x, y) == x[1] < y[1] \/ (x[1] = y[1] /\ x[2] < y[2])

\* std::sort of a vector of contig regions
SortRegions(s) ==
    LET p == CHOOSE f \in AnyOrder(1..Len(s)) :
                \A i, j \in 1..Len(s) : i < j => ~ContigRegionLess(s[f[j]], s[f[i]])
    IN  [i \in 1..Len(s) |-> s[p[i]]]

ContigsOf(the_regions) == {the_regions[i].contig : i \in 1..Len(the_regions)}

\* (a slip: assignment in place of emplace_back, the last region of a contig
\* replaces the earlier ones)
keep_last_region_of_contig(the_regions) ==
    [c \in ContigsOf(the_regions) |->
        LET on_c == SelectSeq(the_regions, LAMBDA r : r.contig = c)
        IN  <<<<on_c[Len(on_c)].begin, on_c[Len(on_c)].end>>>>]

\* (a slip: the std::sort loop left out, the regions stay in header order)
add_possible_regions_unsorted(the_regions) ==
    [c \in ContigsOf(the_regions) |->
        LET on_c == SelectSeq(the_regions, LAMBDA r : r.contig = c)
        IN  [i \in 1..Len(on_c) |-> <<on_c[i].begin, on_c[i].end>>]]

\* the entry possible_regions_in_readers_[the_reader_path] after the call
add_possible_regions_to_reader_map(the_regions) ==
    [c \in ContigsOf(the_regions) |->
        LET on_c == SelectSeq(the_regions, LAMBDA r : r.contig = c)
        IN  SortRegions([i \in 1..Len(on_c) |-> <<on_c[i].begin, on_c[i].end>>])]

has_overlapped(contig_regions, r) ==
    \E i \in 1..Len(contig_regions) :
        contig_regions[i][1] < r[2] /\ r[1] < contig_regions[i][2]

\* (a slip: the overlap test left out, an entry for the contig is enough)
could_reader_contain_contig(the_reader_path, region) ==
    IF the_reader_path \notin DOMAIN possible_regions_in_readers_ THEN FALSE
    ELSE region.contig \in DOMAIN possible_regions_in_readers_[the_reader_path]

could_reader_contain_region(the_reader_path, region) ==
    IF the_reader_path \notin DOMAIN possible_regions_in_readers_ THEN FALSE
    ELSE IF region.contig \notin DOMAIN possible_regions_in_readers_[the_reader_path] THEN FALSE
    ELSE has_overlapped(possible_regions_in_readers_[the_reader_path][region.contig],
                        <<region.begin, region.end>>)

\* ------------------------------------------------------------ sample index
\* (a slip: the loop over the_samples_in_reader leaves after its first round)
add_reader_to_first_sample(scan_order) ==
    LET first_sample(p) == CHOOSE s \in samples_in_file[p] :
                              \A t \in samples_in_file[p] : s = t \/ s = "S1"
    IN  [s \in {first_sample(scan_order[i]) : i \in 1..Len(scan_order)} |->
            SelectSeq(scan_order, LAMBDA p : s = first_sample(p))]

\* reader_paths_containing_sample_ after scanning the files in this order
add_reader_to_sample_map(scan_order) ==
    [s \in UNION {samples_in_file[scan_order[i]] : i \in 1..Len(scan_order)} |->
        SelectSeq(scan_order, LAMBDA p : s \in samples_in_file[p])]

\* (a slip: operator[] in place of at(), which never throws)
AtNeverThrows(sample) == FALSE

\* reader_paths_containing_sample_.at(sample) throws std::out_of_range
AtThrows(sample) == sample \notin DOMAIN reader_paths_containing_sample_

SamplePaths(sample) ==
    IF sample \in DOMAIN reader_paths_containing_sample_
    THEN reader_paths_containing_sample_[sample] ELSE <<>>

get_samples == DOMAIN reader_paths_containing_sample_

num_samples == Cardinality(DOMAIN reader_paths_containing_sample_)

\* the vector get_samples() returns: the keys in the map's iteration order,
\* whichever that is
get_samples_vectors == AnyOrder(DOMAIN reader_paths_containing_sample_)

RECURSIVE Flatten(_)
Flatten(ss) == IF ss = <<>> THEN <<>> ELSE SamplePaths(Head(ss)) \o Flatten(Tail(ss))

\* (a slip: the samples' path lists appended to a vector, with no set between)
get_reader_paths_of_each_sample(samples) ==
    {Flatten(CHOOSE ss \in AnyOrder(samples) : TRUE)}

\* the vector built from the unordered set of the samples' paths, in any of
\* the set's iteration orders
get_reader_paths_containing_samples(samples) ==
    AnyOrder(UNION {Range(SamplePaths(s)) : s \in samples})

\* ------------------------------------------------------------- the readers
AlignedRead(p, s, c, b) == [source |-> p, sample |-> s, contig |-> c, begin |-> b]

\* the reads of a file lie inside the regions its header lists: one read at
\* the first and one at the last position of each
ReadsInRegion(p, s, r) ==
    IF r.end - r.begin >= 2
    THEN <<AlignedRead(p, s, r.contig, r.begin), AlignedRead(p, s, r.contig, r.end - 1)>>
    ELSE <<AlignedRead(p, s, r.contig, r.begin)>>

RECURSIVE ReadsInRegions(_, _, _)
ReadsInRegions(p, s, rs) ==
    IF rs = <<>> THEN <<>>
    ELSE ReadsInRegion(p, s, Head(rs)) \o ReadsInRegions(p, s, Tail(rs))

\* the reads of sample s in file p, in the file's order
ReadsInFile(p, s) ==
    IF s \in samples_in_file[p] THEN ReadsInRegions(p, s, regions_in_file[p]) ELSE <<>>

ReadOverlaps(read, region) ==
    read.contig = region.contig /\ read.begin < region.end /\ region.begin < read.begin + 1

\* ReadReader::fetch_reads(region) of the reader of file p: the reads that
\* overlap the region, by sample
ReaderFetchReads(p, region) ==
    LET reads(s) == SelectSeq(ReadsInFile(p, s), LAMBDA r : ReadOverlaps(r, region))
    IN  [s \in {t \in samples_in_file[p] : reads(t) # <<>>} |-> reads(s)]

\* map[sample] of a SampleReadMap: no reads under a missing key
ReadsOf(sample_reads, sample) ==
    IF sample \in DOMAIN sample_reads THEN sample_reads[sample] ELSE <<>>

\* the for_each of fetch_reads(sample, region) over paths: the reads of the
\* sample from open_readers_.at(reader_path), appended to so_far
RECURSIVE FetchSampleReads(_, _, _, _)
FetchSampleReads(so_far, paths, sample, region) ==
    IF paths = <<>> THEN so_far
    ELSE FetchSampleReads(
            so_far \o ReadsOf(ReaderFetchReads(MapAt(open_readers_, Head(paths)), region),
                              sample),
            Tail(paths), sample, region)

\* result[sample_reads.first].insert(...) for every entry of reads
InsertAll(so_far, reads) ==
    [s \in DOMAIN so_far \cup DOMAIN reads |-> ReadsOf(so_far, s) \o ReadsOf(reads, s)]

\* the for_each of fetch_reads(samples, region) over paths
RECURSIVE FetchAllReads(_, _, _)
FetchAllReads(so_far, paths, region) ==
    IF paths = <<>> THEN so_far
    ELSE FetchAllReads(
            InsertAll(so_far, ReaderFetchReads(MapAt(open_readers_, Head(paths)), region)),
            Tail(paths), region)

\* ------------------------------------------------------- <algorithm> calls
\* std::nth_element(begin, begin + num, end, file_size_compare): nothing before
\* position num + 1 is larger than anything from there on; no effect when
\* begin + num = end
StdNthElement(s, num) ==
    IF num = Len(s) THEN {s}
    ELSE {t \in AnyOrder(Range(s)) :
            \A i \in 1..num, j \in (num + 1)..Len(s) : ~file_size_compare(t[j], t[i])}

\* --------------------------------------------------------------- the pool
\* unsigned arithmetic: TLC's integers are 32-bit signed, so the modulus is
\* 2^30; every modulus above the number of paths gives the same comparisons
UnsignedModulus == 1073741824

num_open_reader_spaces == (max_open_files_ - Cardinality(open_readers_)) % UnsignedModulus

\* (a slip: the batch is admitted with no resident closed first)
no_readers_to_close(num_requested_spaces, spaces) == 0

\* (a slip: the test of open_reader, a full pool, decides on a close)
one_reader_to_close_when_full(num_requested_spaces, spaces) ==
    IF spaces = 0 THEN Max(1, num_requested_spaces) ELSE 0

num_readers_to_close(num_requested_spaces, spaces) ==
    IF num_requested_spaces <= spaces THEN 0 ELSE num_requested_spaces - spaces

\* (a slip: rbegin() in place of begin())
choose_largest_reader ==
    CHOOSE k \in open_readers_ : \A o \in open_readers_ : ~file_size_compare(k, o)

choose_reader_to_close == MapBegin(open_readers_)

\* (a slip: std::end in place of last_region_containing_reader)
ReadersToOpenUpToEnd(last_open_reader, last_region_containing_reader, end) ==
    [first |-> last_open_reader, last |-> end]

\* the range a fetch hands to open_readers
ReadersToOpen(last_open_reader, last_region_containing_reader, end) ==
    [first |-> last_open_reader, last |-> last_region_containing_reader]

\* -------------------------------------------------------------- the audit
Queried(h, candidates) ==
    IF h.on THEN [h EXCEPT !.queries = Append(@, candidates)] ELSE h

CountOpen(h, p) == IF h.on THEN [h EXCEPT !.opens[p] = @ + 1] ELSE h

CountClose(h, p) == IF h.on THEN [h EXCEPT !.closes[p] = @ + 1] ELSE h

Returned(h, c, value) ==
    IF h.on THEN [h EXCEPT !.returns = Append(@, [call |-> c, value |-> value])] ELSE h

MayCall == history.on => Len(history.queries) < MaxCalls

\* ------------------------------------------------------------------ states
\* the files' sizes matter through file_size_compare alone and paths are
\* interchangeable, so paths are named in order of size and a size is its rank
SizeRanks(k) ==
    {f \in [{PathOrder[i] : i \in 1..k} -> 1..k] :
        /\ f[PathOrder[1]] = 1
        /\ \A i \in 1..(k - 1) : f[PathOrder[i + 1]] - f[PathOrder[i]] \in {0, 1}}

ManagerInit(budgets, catalogs, audit, all_exist) ==
    /\ \E k \in catalogs :
          /\ read_file_paths = {PathOrder[i] : i \in 1..k}
          /\ existing \in IF all_exist THEN {{PathOrder[i] : i \in 1..k}}
                          ELSE SUBSET {PathOrder[i] : i \in 1..k}
          /\ file_size \in SizeRanks(k)
          /\ \E kind \in [{PathOrder[i] : i \in 1..k} -> FileKinds] :
                /\ samples_in_file = [p \in DOMAIN kind |-> kind[p].samples]
                /\ regions_in_file = [p \in DOMAIN kind |-> kind[p].regions]
          /\ closed_readers_ = {PathOrder[i] : i \in 1..k}
          /\ history = [on |-> audit, queries |-> <<>>, returns |-> <<>>,
                        opens |-> [p \in {PathOrder[i] : i \in 1..k} |-> 0],
                        closes |-> [p \in {PathOrder[i] : i \in 1..k} |-> 0]]
    /\ max_open_files_ \in budgets
    /\ open_readers_ = {}
    /\ reader_paths_containing_sample_ = <<>>
    /\ possible_regions_in_readers_ = <<>>
    /\ pc = "setup"
    /\ call = NoCall
    /\ reader_paths = <<>>
    /\ it = 1
    /\ frame = NoFrame
    /\ n = 0
    /\ evicted = <<>>
    /\ opened = <<>>
    /\ result = <<>>
    /\ error = <<>>
    /\ other = NoThread
    /\ scan = NoScan

InitWith(budgets, catalogs, audit, all_exist) ==
    /\ ManagerInit(budgets, catalogs, audit, all_exist)
    /\ cigar = NoCigarCall
    /\ options = NoOptionsCall

Init == InitWith(1..MaxOpenFiles, 1..Len(PathOrder), FALSE, TRUE)

InFetch == call.op \in {"fetch_sample", "fetch_samples"}

\* entry of open_readers(first, last) on the vector v, up to close_readers
EnterOpenReaders(v, f, l) ==
    LET spaces == num_open_reader_spaces
        to_close == num_readers_to_close(l - f, spaces)
    IN  /\ reader_paths' = SubSeq(v, f, l - 1)
        /\ it' = 1
        /\ frame' = [num_open_readers |-> Cardinality(open_readers_),
                     num_open_reader_spaces |-> spaces, num_requested_spaces |-> l - f,
                     num_readers_to_close |-> to_close]
        /\ n' = to_close
        /\ evicted' = <<>>
        /\ opened' = <<>>
        /\ pc' = IF to_close > 0 THEN "close_readers"
                 ELSE IF f < l THEN "emplace" ELSE "return"

ResetLocals ==
    /\ reader_paths' = <<>>
    /\ it' = 1
    /\ frame' = NoFrame
    /\ n' = 0
    /\ evicted' = <<>>
    /\ opened' = <<>>
    /\ result' = <<>>

\* the two std::partition calls of a fetch on the vector v.  The first moves
\* the paths that could contain the region to the front, the second moves the
\* open ones to the front of those; std::partition leaves the order inside a
\* part unspecified.  Every outcome, with the two iterators returned
Partitioned(v, region) ==
    LET containing == SelectSeq(v, LAMBDA p : could_reader_contain_region(p, region))
        others == SelectSeq(v, LAMBDA p : ~could_reader_contain_region(p, region))
        already_open == SelectSeq(containing, LAMBDA p : is_open(p))
        to_open == SelectSeq(containing, LAMBDA p : ~is_open(p))
    IN  {[seq |-> a \o b \o c,
          last_open_reader |-> 1 + Len(already_open),
          last_region_containing_reader |-> 1 + Len(containing)] :
            a \in Rearranged(already_open), b \in Rearranged(to_open),
            c \in Rearranged(others)}

\* (a slip: the existence check left out)
no_bad_paths == {}

\* the paths of closed_readers_ that do not exist
get_bad_paths == {path \in closed_readers_ : path \notin existing}

\* (a slip: the loop over bad_paths leaves after its first round)
FirstLineOnly(bad_paths) ==
    <<"bad read files: ", <<"\t* ", Head(bad_paths), ": does not exist">>>>

\* the message setup builds from bad_paths, line by line (the last line's
\* newline erased)
ErrorLines(bad_paths) ==
    <<"bad read files: ">> \o
        [i \in 1..Len(bad_paths) |-> <<"\t* ", bad_paths[i], ": does not exist">>]

\* ReadManager::ReadManager -> setup with a bad path: std::runtime_error
\* leaves the constructor, there is no manager
SetupFail ==
    /\ pc = "setup"
    /\ get_bad_paths # {}
    /\ \E bad_paths \in AnyOrder(get_bad_paths) : error' = ErrorLines(bad_paths)
    /\ call' = [op |-> "ReadManager", samples |-> {}, region |-> NoRegion]
    /\ pc' = "threw"
    /\ UNCHANGED <<config, utilities, scan, other, indexes, pool, locals, history>>

\* ReadManager::ReadManager -> setup: the header scan of every file, then
\* open_initial_files up to its call of close_readers
Setup ==
    /\ pc = "setup"
    /\ get_bad_paths = {}
    /\ \E scan_order \in AnyOrder(closed_readers_) :
          /\ possible_regions_in_readers_' =
                [p \in closed_readers_ |-> add_possible_regions_to_reader_map(regions_in_file[p])]
          /\ reader_paths_containing_sample_' = add_reader_to_sample_map(scan_order)
          /\ LET num_files_to_open == Min(max_open_files_, Cardinality(closed_readers_))
             IN  \E v \in StdNthElement(scan_order, num_files_to_open) :
                    EnterOpenReaders(v, 1, 1 + num_files_to_open)
    /\ call' = [op |-> "ReadManager", samples |-> {}, region |-> NoRegion]
    /\ result' = <<>>
    /\ UNCHANGED <<config, utilities, scan, other, pool, error, history>>

\* a fetch whose .at(sample) throws: nothing else has run
Throw ==
    /\ pc' = "threw"
    /\ history' = Queried(history, {})
    /\ UNCHANGED <<config, utilities, scan, other, indexes, pool, locals, error>>

\* fetch_reads(sample, region) up to its call of close_readers
FetchSample ==
    /\ pc = "idle"
    /\ MayCall
    /\ \E sample \in Samples, region \in QueryRegions :
          /\ call' = [op |-> "fetch_sample", samples |-> {sample}, region |-> region]
          /\ IF AtThrows(sample) THEN Throw
             ELSE \E r \in Partitioned(SamplePaths(sample), region) :
                    LET range == ReadersToOpen(r.last_open_reader,
                                               r.last_region_containing_reader, Len(r.seq) + 1)
                    IN  /\ reader_paths_containing_sample_' =
                              [reader_paths_containing_sample_ EXCEPT ![sample] = r.seq]
                        /\ result' = FetchSampleReads(<<>>,
                              SubSeq(r.seq, 1, r.last_open_reader - 1), sample, region)
                        /\ EnterOpenReaders(r.seq, range.first, range.last)
                        /\ history' = Queried(history,
                              {r.seq[i] : i \in 1..(r.last_region_containing_reader - 1)})
                        /\ UNCHANGED <<config, utilities, scan, other, possible_regions_in_readers_, pool, error>>

\* fetch_reads(samples, region) up to its call of close_readers
FetchSamplesBody(samples, region) ==
    /\ call' = [op |-> "fetch_samples", samples |-> samples, region |-> region]
    /\ IF \E s \in samples : AtThrows(s) THEN Throw
       ELSE \E r \in UNION {Partitioned(v, region) :
                               v \in get_reader_paths_containing_samples(samples)} :
              LET range == ReadersToOpen(r.last_open_reader,
                                         r.last_region_containing_reader, Len(r.seq) + 1)
              IN  /\ result' = FetchAllReads(<<>>,
                        SubSeq(r.seq, 1, r.last_open_reader - 1), region)
                  /\ EnterOpenReaders(r.seq, range.first, range.last)
                  /\ history' = Queried(history,
                        {r.seq[i] : i \in 1..(r.last_region_containing_reader - 1)})
                  /\ UNCHANGED <<config, utilities, scan, other, indexes, pool, error>>

FetchSamples ==
    /\ pc = "idle"
    /\ MayCall
    /\ \E samples \in SUBSET Samples, region \in QueryRegions :
          FetchSamplesBody(samples, region)

\* (a slip: the first sample of get_samples() alone is passed on)
FetchRegionOfFirstSample ==
    /\ pc = "idle"
    /\ MayCall
    /\ \E region \in QueryRegions :
          FetchSamplesBody({CHOOSE s \in get_samples : TRUE}, region)

\* fetch_reads(region) == fetch_reads(get_samples(), region)
FetchRegion ==
    /\ pc = "idle"
    /\ MayCall
    /\ \E region \in QueryRegions : FetchSamplesBody(get_samples, region)

\* one round of close_readers' loop: close_reader(choose_reader_to_close())
CloseReader ==
    /\ pc = "close_readers"
    /\ n > 0
    /\ open_readers_ # {}
    /\ LET victim == choose_reader_to_close
       IN  /\ open_readers_' = MapErase(open_readers_, victim)
           /\ closed_readers_' = closed_readers_ \cup {victim}
           /\ evicted' = Append(evicted, victim)
           /\ history' = CountClose(history, victim)
    /\ n' = n - 1
    /\ pc' = IF n - 1 > 0 THEN "close_readers" ELSE IF it <= Len(reader_paths) THEN "emplace" ELSE "return"
    /\ UNCHANGED <<config, utilities, scan, other, indexes, call, reader_paths, it, frame, opened, result, error>>

\* the same round on an empty pool: begin() == end() is dereferenced.  The
\* process dies, or the bytes read make some path, which close_reader erases
\* from the (empty) map and inserts into closed_readers_
CloseReaderOfEmptyPool ==
    /\ pc = "close_readers"
    /\ n > 0
    /\ open_readers_ = {}
    /\ \/ /\ pc' = "crashed"
          /\ UNCHANGED <<pool, n>>
       \/ /\ \E victim \in read_file_paths \cup {GarbagePath} :
                closed_readers_' = closed_readers_ \cup {victim}
          /\ n' = n - 1
          /\ pc' = IF n - 1 > 0 THEN "close_readers"
                   ELSE IF it <= Len(reader_paths) THEN "emplace" ELSE "return"
          /\ UNCHANGED open_readers_
    /\ UNCHANGED <<config, utilities, scan, other, indexes, call, reader_paths, it, frame, evicted, opened,
                   result, error, history>>

\* one round of open_readers' for_each: emplace a new reader, erase the path
\* from closed_readers_
OpenReader ==
    /\ pc = "emplace"
    /\ it <= Len(reader_paths)
    /\ LET reader_path == reader_paths[it]
       IN  /\ open_readers_' = MapEmplace(open_readers_, reader_path)
           /\ closed_readers_' = closed_readers_ \ {reader_path}
           /\ opened' = Append(opened, reader_path)
           /\ history' = IF MapCount(open_readers_, reader_path) = 0
                         THEN CountOpen(history, reader_path) ELSE history
    /\ it' = it + 1
    /\ pc' = IF it + 1 <= Len(reader_paths) THEN "emplace" ELSE "return"
    /\ UNCHANGED <<config, utilities, scan, other, indexes, call, reader_paths, frame, n, evicted, result, error>>

\* open_reader(reader_path), which no member function of this file calls, on a
\* path of the catalog: one close when the pool holds exactly max_open_files_
\* readers, then emplace and erase
open_reader ==
    /\ pc = "idle"
    /\ \E reader_path \in read_file_paths :
          LET full == Cardinality(open_readers_) = max_open_files_
              victim == choose_reader_to_close
              after_close == IF full THEN MapErase(open_readers_, victim) ELSE open_readers_
              closed_after_close == IF full THEN closed_readers_ \cup {victim}
                                    ELSE closed_readers_
          IN  /\ open_readers_' = MapEmplace(after_close, reader_path)
              /\ closed_readers_' = closed_after_close \ {reader_path}
              /\ evicted' = IF full THEN <<victim>> ELSE <<>>
              /\ opened' = <<reader_path>>
              /\ reader_paths' = <<reader_path>>
    /\ it' = 2
    /\ frame' = [NoFrame EXCEPT !.num_open_readers = Cardinality(open_readers_)]
    /\ n' = 0
    /\ result' = <<>>
    /\ call' = [op |-> "open_reader", samples |-> {}, region |-> NoRegion]
    /\ pc' = "return"
    /\ UNCHANGED <<config, utilities, scan, other, indexes, error, history>>

\* the same round when make_reader throws (the file has become unreadable):
\* nothing is emplaced or erased, the exception leaves open_readers and the
\* fetch
OpenReaderFails ==
    /\ pc = "emplace"
    /\ InFetch
    /\ it <= Len(reader_paths)
    /\ pc' = "threw"
    /\ UNCHANGED <<config, utilities, scan, other, indexes, pool, call, locals, error, history>>

\* what a fetch returns once open_readers has returned: its second for_each
\* appends the reads of the readers just opened
ReturnValue ==
    IF call.op = "fetch_sample"
    THEN FetchSampleReads(result, reader_paths, CHOOSE s \in call.samples : TRUE,
                          call.region)
    ELSE IF call.op = "fetch_samples" THEN FetchAllReads(result, reader_paths, call.region)
    ELSE <<>>

\* open_readers has returned; the caller finishes (a fetch queries the
\* readers just opened) and returns
Return ==
    /\ pc = "return"
    /\ pc' = "idle"
    /\ history' = Returned(history, call, ReturnValue)
    /\ call' = NoCall
    /\ ResetLocals
    /\ UNCHANGED <<config, utilities, scan, other, indexes, pool, error>>

\* the caller of a fetch receives the exception
Caught ==
    /\ pc = "threw"
    /\ InFetch
    /\ pc' = "idle"
    /\ call' = NoCall
    /\ ResetLocals
    /\ UNCHANGED <<config, utilities, scan, other, indexes, pool, error, history>>

Next ==
    \/ Setup
    \/ FetchSample
    \/ FetchSamples
    \/ FetchRegion
    \/ CloseReader
    \/ CloseReaderOfEmptyPool
    \/ OpenReader
    \/ Return
    \/ Caught

Spec == Init /\ [][Next]_vars

TypeOK ==
    /\ pc \in {"setup", "idle", "close_readers", "emplace", "return", "threw", "crashed"}
    /\ open_readers_ \subseteq read_file_paths
    /\ it \in 1..(Len(reader_paths) + 1)

\* two files, room for one reader, every call audited
InitTwoFiles == InitWith({1}, {2}, TRUE, TRUE)

NextTwoFiles ==
    \/ Setup
    \/ FetchSample
    \/ FetchSamples
    \/ FetchRegion
    \/ CloseReader
    \/ OpenReader
    \/ Return
    \/ Caught

SpecTwoFiles == InitTwoFiles /\ [][NextTwoFiles]_vars

\* three files, room for one reader, every call and what it returned audited
InitRepeat == InitWith({1}, {Len(PathOrder)}, TRUE, TRUE)

SpecRepeat == InitRepeat /\ [][Next]_vars

\* the manager over files that can become unreadable after construction
NextWithFailures ==
    \/ Setup
    \/ FetchSample
    \/ FetchSamples
    \/ FetchRegion
    \/ CloseReader
    \/ CloseReaderOfEmptyPool
    \/ OpenReader
    \/ OpenReaderFails
    \/ Return
    \/ Caught

SpecWithFailures == Init /\ [][NextWithFailures]_vars

\* construction, then calls of open_reader
NextOpenReader ==
    \/ Setup
    \/ OpenReader
    \/ open_reader
    \/ Return

SpecOpenReader == Init /\ [][NextOpenReader]_vars

\* ------------------------------------------------------- a second thread
\* read_manager.cpp takes no lock: a second thread that calls
\* fetch_reads(sample, region) on the same manager runs the same statements on
\* the same members, its locals in `other`.  Its call up to close_readers
OtherFetchSample ==
    /\ pc \notin {"setup", "crashed"}
    /\ call.op # "ReadManager"
    /\ other.pc = "idle"
    /\ \E sample \in get_samples, region \in QueryRegions :
          \E r \in Partitioned(SamplePaths(sample), region) :
             LET range == ReadersToOpen(r.last_open_reader,
                                        r.last_region_containing_reader, Len(r.seq) + 1)
                 batch == SubSeq(r.seq, range.first, range.last - 1)
                 to_close == num_readers_to_close(Len(batch), num_open_reader_spaces)
             IN  /\ reader_paths_containing_sample_' =
                       [reader_paths_containing_sample_ EXCEPT ![sample] = r.seq]
                 /\ other' = [pc |-> IF to_close > 0 THEN "close_readers"
                                     ELSE IF batch # <<>> THEN "emplace" ELSE "return",
                              reader_paths |-> batch, it |-> 1, n |-> to_close]
    /\ UNCHANGED <<config, utilities, scan, possible_regions_in_readers_, pool, pc, call, locals, error,
                   history>>

\* where the second thread goes after a round of close_readers
OtherAfterClose ==
    IF other.n - 1 > 0 THEN "close_readers"
    ELSE IF other.it <= Len(other.reader_paths) THEN "emplace" ELSE "return"

\* the second thread's round of close_readers
OtherCloseReader ==
    /\ pc # "crashed"
    /\ other.pc = "close_readers"
    /\ open_readers_ # {}
    /\ LET victim == choose_reader_to_close
       IN  /\ open_readers_' = MapErase(open_readers_, victim)
           /\ closed_readers_' = closed_readers_ \cup {victim}
    /\ other' = [other EXCEPT !.n = @ - 1, !.pc = OtherAfterClose]
    /\ UNCHANGED <<config, utilities, scan, indexes, pc, call, locals, error, history>>

\* the same round on a pool the first thread has emptied meanwhile
OtherCloseReaderOfEmptyPool ==
    /\ pc # "crashed"
    /\ other.pc = "close_readers"
    /\ open_readers_ = {}
    /\ \/ /\ pc' = "crashed"
          /\ UNCHANGED <<pool, other>>
       \/ /\ \E victim \in read_file_paths \cup {GarbagePath} :
                closed_readers_' = closed_readers_ \cup {victim}
          /\ other' = [other EXCEPT !.n = @ - 1, !.pc = OtherAfterClose]
          /\ UNCHANGED <<open_readers_, pc>>
    /\ UNCHANGED <<config, utilities, scan, indexes, call, locals, error, history>>

\* the second thread's round of open_readers' for_each
OtherOpenReader ==
    /\ pc # "crashed"
    /\ other.pc = "emplace"
    /\ LET reader_path == other.reader_paths[other.it]
       IN  /\ open_readers_' = MapEmplace(open_readers_, reader_path)
           /\ closed_readers_' = closed_readers_ \ {reader_path}
    /\ other' = [other EXCEPT !.it = @ + 1,
                              !.pc = IF other.it + 1 <= Len(other.reader_paths)
                                     THEN "emplace" ELSE "return"]
    /\ UNCHANGED <<config, utilities, scan, indexes, pc, call, locals, error, history>>

\* the second thread's second for_each and return; whether its .at() finds
\* the readers or throws, the members stay as they are
OtherReturn ==
    /\ pc # "crashed"
    /\ other.pc = "return"
    /\ other' = NoThread
    /\ UNCHANGED <<config, utilities, scan, indexes, pool, pc, call, locals, error, history>>

\* the first thread's second for_each when the other thread has closed a
\* reader of its batch meanwhile: open_readers_.at throws std::out_of_range
QueryThrows ==
    /\ pc = "return"
    /\ InFetch
    /\ \E i \in 1..Len(reader_paths) : ~is_open(reader_paths[i])
    /\ pc' = "threw"
    /\ UNCHANGED <<config, utilities, scan, other, indexes, pool, call, locals, error, history>>

\* the first thread's second for_each finds every reader of its batch
QueryReturns ==
    /\ \A i \in 1..Len(reader_paths) : is_open(reader_paths[i])
    /\ Return

\* two files, room for one reader, two threads
InitConcurrent == InitWith({1}, {2}, FALSE, TRUE)

NextConcurrent ==
    \/ Setup
    \/ FetchSample
    \/ CloseReader
    \/ CloseReaderOfEmptyPool
    \/ OpenReader
    \/ QueryThrows
    \/ QueryReturns
    \/ Caught
    \/ OtherFetchSample
    \/ OtherCloseReader
    \/ OtherCloseReaderOfEmptyPool
    \/ OtherOpenReader
    \/ OtherReturn

SpecConcurrent == InitConcurrent /\ [][NextConcurrent]_vars

\* construction alone, over catalogs with and without missing files
InitConstruction == InitWith(1..MaxOpenFiles, 1..Len(PathOrder), FALSE, FALSE)

NextConstruction ==
    \/ Setup
    \/ SetupFail
    \/ OpenReader
    \/ Return

SpecConstruction == InitConstruction /\ [][NextConstruction]_vars

\* ------------------------------------------- construction, file by file
\* setup_reader_samples_and_regions, one round of its loop up to the
\* declaration of `reader`: make_reader on a path not visited yet
ScanOpen ==
    /\ pc = "setup"
    /\ get_bad_paths = {}
    /\ scan.reader = {}
    /\ \E reader_path \in closed_readers_ \ Range(scan.order) :
          scan' = [scan EXCEPT !.reader = {reader_path}]
    /\ UNCHANGED <<config, utilities, indexes, pool, pc, call, locals, error, other, history>>

\* (a slip: the scan readers are kept in a container until the loop ends)
ScanKeepsReader ==
    /\ pc = "setup"
    /\ scan.reader # {}
    /\ \E reader_path \in closed_readers_ \ Range(scan.order) :
          /\ reader_path \in scan.reader
          /\ \/ /\ \E next_path \in closed_readers_ \ (Range(scan.order) \cup scan.reader) :
                      scan' = [scan EXCEPT !.reader = @ \cup {next_path}]
                /\ UNCHANGED indexes
             \/ /\ closed_readers_ \ Range(scan.order) = scan.reader
                /\ \E rest \in AnyOrder(scan.reader) :
                      /\ scan' = [reader |-> {}, order |-> scan.order \o rest]
                      /\ possible_regions_in_readers_' =
                            [p \in closed_readers_ |->
                                add_possible_regions_to_reader_map(regions_in_file[p])]
                      /\ reader_paths_containing_sample_' =
                            add_reader_to_sample_map(scan.order \o rest)
    /\ UNCHANGED <<config, utilities, pool, pc, call, locals, error, other, history>>

\* the rest of the round: both indexes get the file's header, then `reader`
\* goes out of scope
ScanRelease ==
    /\ pc = "setup"
    /\ scan.reader # {}
    /\ \E reader_path \in scan.reader :
          LET visited == Append(scan.order, reader_path)
          IN  /\ possible_regions_in_readers_' =
                    [p \in Range(visited) |->
                        add_possible_regions_to_reader_map(regions_in_file[p])]
              /\ reader_paths_containing_sample_' = add_reader_to_sample_map(visited)
              /\ scan' = [reader |-> {}, order |-> visited]
    /\ UNCHANGED <<config, utilities, pool, pc, call, locals, error, other, history>>

\* open_initial_files once the scan has visited every path, up to close_readers
OpenInitialFiles ==
    /\ pc = "setup"
    /\ get_bad_paths = {}
    /\ scan.reader = {}
    /\ Range(scan.order) = closed_readers_
    /\ LET num_files_to_open == Min(max_open_files_, Cardinality(closed_readers_))
       IN  \E v \in UNION {StdNthElement(o, num_files_to_open) :
                              o \in AnyOrder(closed_readers_)} :
              EnterOpenReaders(v, 1, 1 + num_files_to_open)
    /\ call' = [op |-> "ReadManager", samples |-> {}, region |-> NoRegion]
    /\ result' = <<>>
    /\ UNCHANGED <<config, utilities, scan, indexes, pool, error, other, history>>

NextScan ==
    \/ ScanOpen
    \/ ScanRelease
    \/ OpenInitialFiles
    \/ OpenReader
    \/ Return

SpecScan == Init /\ [][NextScan]_vars

\* ------------------------------------------------------------ cigar_string
MaxCigarLen == 3
MaxOpSize == 2
MaxSpliceSize == 4

\* CigarOperation's flags, and the ones the cigar strings below are made of:
\* one that advances both reference and sequence, one the sequence only, one
\* the reference only, one neither
Flags == {"M", "=", "X", "I", "D", "S", "H", "P", "N"}
CigarFlags == {"M", "I", "D", "H"}

CigarOperation(size, flag) == [size |-> size, flag |-> flag]

CigarOperations == {CigarOperation(size, flag) : size \in 1..MaxOpSize, flag \in CigarFlags}

CigarStrings == UNION {[1..len -> CigarOperations] : len \in 0..MaxCigarLen}

advances_reference(op) == ~(op.flag = "I" \/ op.flag = "H" \/ op.flag = "P")

advances_sequence(op) == ~(op.flag = "D" \/ op.flag = "H")

\* the lambdas handed to splice as pred, by name
Pred(pred, op) ==
    CASE pred = "true" -> TRUE
      [] pred = "advances_reference" -> advances_reference(op)
      [] pred = "advances_sequence" -> advances_sequence(op)

\* the first while loop of splice: op_it and offset when it ends
RECURSIVE SpliceSkip(_, _, _, _)
SpliceSkip(cigar_string, op_it, offset, pred) ==
    IF op_it <= Len(cigar_string)
       /\ (offset >= cigar_string[op_it].size \/ ~Pred(pred, cigar_string[op_it]))
    THEN SpliceSkip(cigar_string, op_it + 1,
                    IF Pred(pred, cigar_string[op_it])
                    THEN (offset - cigar_string[op_it].size) % UnsignedModulus ELSE offset,
                    pred)
    ELSE [op_it |-> op_it, offset |-> offset]

\* the second while loop of splice and the if after it: the result
RECURSIVE SpliceCopy(_, _, _, _, _)
SpliceCopy(cigar_string, op_it, size, so_far, pred) ==
    IF op_it <= Len(cigar_string) /\ size > 0
       /\ (size >= cigar_string[op_it].size \/ ~Pred(pred, cigar_string[op_it]))
    THEN SpliceCopy(cigar_string, op_it + 1,
                    IF Pred(pred, cigar_string[op_it])
                    THEN (size - cigar_string[op_it].size) % UnsignedModulus ELSE size,
                    Append(so_far, cigar_string[op_it]), pred)
    ELSE IF op_it <= Len(cigar_string) /\ size > 0
         THEN Append(so_far, CigarOperation(size, cigar_string[op_it].flag))
         ELSE so_far

\* splice(cigar_string, offset, size, pred)
splice_pred(cigar_string, offset, size, pred) ==
    LET skipped == SpliceSkip(cigar_string, 1, offset, pred)
        op_it == skipped.op_it
    IN  IF op_it <= Len(cigar_string)
        THEN LET remainder == (cigar_string[op_it].size - skipped.offset) % UnsignedModulus
             IN  IF remainder >= size
                 THEN <<CigarOperation(size, cigar_string[op_it].flag)>>
                 ELSE SpliceCopy(cigar_string, op_it + 1,
                                 (size - remainder) % UnsignedModulus,
                                 <<CigarOperation(remainder, cigar_string[op_it].flag)>>, pred)
        ELSE SpliceCopy(cigar_string, op_it, size, <<>>, pred)

\* splice(cigar_string, offset, size)
splice_offset(cigar_string, offset, size) == splice_pred(cigar_string, offset, size, "true")

\* splice(cigar_string, size)
splice(cigar_string, size) == splice_offset(cigar_string, 0, size)

\* splice_reference(cigar_string, offset, size)
splice_reference_offset(cigar_string, offset, size) ==
    splice_pred(cigar_string, offset, size, "advances_reference")

\* splice_reference(cigar_string, size)
splice_reference(cigar_string, size) == splice_offset(cigar_string, 0, size)

\* splice_sequence(cigar_string, offset, size)
splice_sequence_offset(cigar_string, offset, size) ==
    splice_pred(cigar_string, offset, size, "advances_sequence")

\* splice_sequence(cigar_string, size)
splice_sequence(cigar_string, size) == splice_offset(cigar_string, 0, size)

sum_operation_sizes(cigar_string) ==
    LET RECURSIVE Sum(_)
        Sum(i) == IF i > Len(cigar_string) THEN 0 ELSE cigar_string[i].size + Sum(i + 1)
    IN  Sum(1)

\* what a read through the end iterator gives: the process dies, or the bytes
\* there make some operation
PastTheEnd == CigarOperation(0, "past the end")
Crashed == CigarOperation(0, "crashed")
GarbageOperation == CigarOperation(0, "?")
ReadPastTheEnd == {Crashed, GarbageOperation} \cup CigarOperations

\* the loop of get_operation_at_sequence_position from `first` on: the
\* operation returned, or PastTheEnd when *first is read at end()
RECURSIVE WalkToPosition(_, _, _)
WalkToPosition(cigar_string, first, pos) ==
    IF first > Len(cigar_string) THEN PastTheEnd
    ELSE IF pos >= cigar_string[first].size
         THEN IF first + 1 > Len(cigar_string) THEN PastTheEnd
              ELSE WalkToPosition(cigar_string, first + 1,
                                  (pos - cigar_string[first + 1].size) % UnsignedModulus)
         ELSE cigar_string[first]

\* every value get_operation_at_sequence_position(cigar, pos) can return
get_operation_at_sequence_position(cigar_string, pos) ==
    IF WalkToPosition(cigar_string, 1, pos) = PastTheEnd THEN ReadPastTheEnd
    ELSE {WalkToPosition(cigar_string, 1, pos)}

CalledWith(op, args, value) ==
    [cigar EXCEPT !.op = op, !.args = args, !.result = value]

SpliceReference ==
    /\ cigar.op = "none"
    /\ \E size \in 0..MaxSpliceSize :
          cigar' = CalledWith("splice_reference", <<size>>,
                              splice_reference(cigar.cigar_string, size))
    /\ UNCHANGED <<config, options, indexes, pool, pc, call, locals, error, other, scan,
                   history>>

SpliceReferenceOffset ==
    /\ cigar.op = "none"
    /\ \E offset, size \in 0..MaxSpliceSize :
          cigar' = CalledWith("splice_reference_offset", <<offset, size>>,
                              splice_reference_offset(cigar.cigar_string, offset, size))
    /\ UNCHANGED <<config, options, indexes, pool, pc, call, locals, error, other, scan,
                   history>>

SpliceSequence ==
    /\ cigar.op = "none"
    /\ \E size \in 0..MaxSpliceSize :
          cigar' = CalledWith("splice_sequence", <<size>>,
                              splice_sequence(cigar.cigar_string, size))
    /\ UNCHANGED <<config, options, indexes, pool, pc, call, locals, error, other, scan,
                   history>>

SpliceSequenceOffset ==
    /\ cigar.op = "none"
    /\ \E offset, size \in 0..MaxSpliceSize :
          cigar' = CalledWith("splice_sequence_offset", <<offset, size>>,
                              splice_sequence_offset(cigar.cigar_string, offset, size))
    /\ UNCHANGED <<config, options, indexes, pool, pc, call, locals, error, other, scan,
                   history>>

GetOperationAtSequencePosition ==
    /\ cigar.op = "none"
    /\ \E pos \in 0..(MaxCigarLen * MaxOpSize) :
          \E value \in get_operation_at_sequence_position(cigar.cigar_string, pos) :
             cigar' = CalledWith("get_operation_at_sequence_position", <<pos>>, value)
    /\ UNCHANGED <<config, options, indexes, pool, pc, call, locals, error, other, scan,
                   history>>

\* calls of the cigar functions on every cigar string of the bounds, beside
\* a manager that is not used
InitCigar ==
    /\ ManagerInit({1}, {1}, FALSE, TRUE)
    /\ cigar \in {[NoCigarCall EXCEPT !.cigar_string = c] : c \in CigarStrings}
    /\ options = NoOptionsCall

NextCigar ==
    \/ SpliceReference
    \/ SpliceReferenceOffset
    \/ SpliceSequence
    \/ SpliceSequenceOffset
    \/ GetOperationAtSequencePosition

SpecCigar == InitCigar /\ [][NextCigar]_vars

\* --------------------------------------------------------- program_options
MaxContigSize == 3

\* the reference genome: its contigs, all of one size
ReferenceContigs == {"chr1", "chr2"}

get_contig_size(contig) == MaxContigSize

\* a region as text, by the fields present: chrom, chrom:begin-, chrom:begin-end;
\* a bed line has the same fields separated by tabs, and may be empty
RegionText(contig, fields, begin, end) ==
    [contig |-> contig, fields |-> fields, begin |-> begin, end |-> end]

EmptyLine == RegionText("", 0, 0, 0)

RegionTexts ==
    {RegionText(c, 1, 0, 0) : c \in ReferenceContigs}
        \cup {RegionText(c, 2, 1, 0) : c \in ReferenceContigs}
        \cup {RegionText(c, 3, 0, 2) : c \in ReferenceContigs}
        \cup {RegionText(c, 3, 1, MaxContigSize) : c \in ReferenceContigs}

\* parse_region(text, the_reference): a missing end is the contig's end, a
\* missing begin its start
parse_region(text) ==
    [contig |-> text.contig,
     begin |-> IF text.fields >= 2 THEN text.begin ELSE 0,
     end |-> IF text.fields >= 3 THEN text.end ELSE get_contig_size(text.contig)]

\* detail::to_region_format(bed_line) for a line of at least one token
to_region_format(bed_line) ==
    IF bed_line.fields = 1 THEN RegionText(bed_line.contig, 1, 0, 0)
    ELSE IF bed_line.fields = 2 THEN RegionText(bed_line.contig, 2, bed_line.begin, 0)
    ELSE RegionText(bed_line.contig, 3, bed_line.begin, bed_line.end)

\* a file named by an option: whether it exists, its extension, its lines
RegionFiles ==
    {[exists |-> FALSE, bed |-> FALSE, lines |-> <<>>]}
        \cup {[exists |-> TRUE, bed |-> FALSE, lines |-> l] :
                l \in {<<>>} \cup {<<t>> : t \in RegionTexts}}
        \cup {[exists |-> TRUE, bed |-> TRUE, lines |-> l] :
                l \in {<<>>} \cup {<<t>> : t \in RegionTexts \cup {EmptyLine}}}

\* detail::get_regions_from_file throws: the file is missing, or a bed line
\* has no token
RegionsFileThrows(file) ==
    \/ ~file.exists
    \/ file.bed /\ \E i \in 1..Len(file.lines) : file.lines[i].fields = 0

\* detail::get_regions_from_file(file_path, the_reference) when it returns
get_regions_from_file(file) ==
    [i \in 1..Len(file.lines) |->
        IF file.bed THEN parse_region(to_region_format(file.lines[i]))
        ELSE parse_region(file.lines[i])]

PositionsOf(regions) == UNION {r.begin..(r.end - 1) : r \in regions}

\* get_covered_regions over the regions of one contig: the maximal runs of
\* covered positions
get_covered_regions(contig, contig_regions) ==
    LET covered == PositionsOf(contig_regions)
    IN  {[contig |-> contig, begin |-> b, end |-> e] :
            <<b, e>> \in {be \in (0..MaxContigSize) \X (0..MaxContigSize) :
                            /\ be[1] < be[2]
                            /\ be[1]..(be[2] - 1) \subseteq covered
                            /\ be[1] - 1 \notin covered
                            /\ be[2] \notin covered}}

\* detail::make_search_regions(regions)
make_search_regions(regions) ==
    [c \in {regions[i].contig : i \in 1..Len(regions)} |->
        get_covered_regions(c, {regions[i] : i \in {j \in 1..Len(regions) :
                                                      regions[j].contig = c}})]

\* get_all_contig_regions(the_reference), in some order
get_all_contig_regions ==
    LET order == CHOOSE o \in AnyOrder(ReferenceContigs) : TRUE
    IN  [i \in 1..Len(order) |->
            [contig |-> order[i], begin |-> 0, end |-> get_contig_size(order[i])]]

\* detail::get_all_regions_not_skipped(the_reference, skip_regions)
get_all_regions_not_skipped(skip_regions) ==
    IF skip_regions = <<>> THEN make_search_regions(get_all_contig_regions)
    ELSE <<>>

\* options.count(option); an option map holds, for each of the four region
\* options, its value when given (a sequence of one) or nothing
count(given, option) == Len(given[option])

\* options.at(option).as<...>()
at(given, option) == given[option][1]

\* the regions an option list and an option file give, in this order
RegionsGiven(given, list_option, file_option) ==
    (IF count(given, list_option) = 1
     THEN [i \in 1..Len(at(given, list_option)) |->
              parse_region(at(given, list_option)[i])]
     ELSE <<>>)
    \o (IF count(given, file_option) = 1 THEN get_regions_from_file(at(given, file_option))
        ELSE <<>>)

NoSearchOption(given) == count(given, "regions") = 0 /\ count(given, "regions_file") = 0

\* get_search_regions leaves by an exception of get_regions_from_file
SearchRegionsThrow(given) ==
    IF NoSearchOption(given)
    THEN /\ count(given, "skip_regions_file") = 1
         /\ RegionsFileThrows(at(given, "skip_regions_file"))
    ELSE /\ count(given, "regions_file") = 1
         /\ RegionsFileThrows(at(given, "regions_file"))

\* get_search_regions(options, the_reference) when it returns
get_search_regions(given) ==
    IF NoSearchOption(given)
    THEN get_all_regions_not_skipped(RegionsGiven(given, "skip_regions", "skip_regions_file"))
    ELSE make_search_regions(RegionsGiven(given, "regions", "regions_file"))

GetSearchRegions ==
    /\ options.op = "none"
    /\ ~SearchRegionsThrow(options.given)
    /\ options' = [options EXCEPT !.op = "get_search_regions",
                                  !.result = get_search_regions(options.given)]
    /\ UNCHANGED <<config, cigar, indexes, pool, pc, call, locals, error, other, scan,
                   history>>

GetSearchRegionsThrows ==
    /\ options.op = "none"
    /\ SearchRegionsThrow(options.given)
    /\ options' = [options EXCEPT !.op = "threw"]
    /\ UNCHANGED <<config, cigar, indexes, pool, pc, call, locals, error, other, scan,
                   history>>

\* the values of the four region options: each absent, or a list of one
\* region (a file: of at most one line)
RegionLists == {<<>>} \cup {<<<<t>>>> : t \in RegionTexts}

FilesGiven == {<<>>} \cup {<<f>> : f \in RegionFiles}

OptionsGiven ==
    {[regions |-> r, regions_file |-> rf, skip_regions |-> sr, skip_regions_file |-> sf] :
        r \in RegionLists, rf \in FilesGiven, sr \in RegionLists, sf \in FilesGiven}

\* calls of get_search_regions on every option map of the bounds, beside a
\* manager that is not used
InitOptions ==
    /\ ManagerInit({1}, {1}, FALSE, TRUE)
    /\ cigar = NoCigarCall
    /\ options \in {[NoOptionsCall EXCEPT !.given = g] : g \in OptionsGiven}

NextOptions ==
    \/ GetSearchRegions
    \/ GetSearchRegionsThrows

SpecOptions == InitOptions /\ [][NextOptions]_vars

\* ------------------------------------------------------------------ claims
HoldsRequestedSample(p) == samples_in_file[p] \cap call.samples # {}

NoDuplicates(s) == \A i, j \in 1..Len(s) : s[i] = s[j] => i = j

\* C1: after construction and after every completed call the number of open
\* readers is at most max_open_files_.
C1_BudgetAfterEveryCall ==
    pc = "idle" => Cardinality(open_readers_) <= max_open_files_

\* C2: between the evictions and admissions of a fetch's batch open the
\* number of open readers is at most max_open_files_.
C2_BudgetInsideBatchOpen ==
    (InFetch /\ pc \in {"close_readers", "emplace"}) =>
        Cardinality(open_readers_) <= max_open_files_

\* C3: after construction and after every call every path of the catalog is in
\* exactly one of open_readers_ and closed_readers_.
C3_PartitionAfterEveryCall ==
    pc = "idle" =>
        \A p \in read_file_paths : (p \in open_readers_) # (p \in closed_readers_)

\* C4: every path a fetch adds to open_readers_ holds a requested sample and
\* passes could_reader_contain_region for the requested region.
C4_FetchOpensOnlyFilteredCandidates ==
    [][InFetch =>
          \A p \in open_readers_' \ open_readers_ :
              HoldsRequestedSample(p) /\ could_reader_contain_region(p, call.region)]_vars

\* a single-sample fetch has opened a reader while a file of the sample that
\* fails the region filter is still closed
C4_Witness ==
    /\ call.op = "fetch_sample"
    /\ pc = "return"
    /\ opened # <<>>
    /\ opened[1] \in open_readers_
    /\ \E q \in closed_readers_ \cap read_file_paths :
          HoldsRequestedSample(q) /\ ~could_reader_contain_region(q, call.region)

\* C5: a fetch naming a sample that is no key of the sample index throws, and
\* open_readers_ and closed_readers_ are as before the call.
C5_UnknownSampleThrows ==
    [][/\ (pc = "idle" /\ pc' # "idle" /\ \E s \in call'.samples : s \notin get_samples) =>
            (pc' = "threw" /\ open_readers_' = open_readers_
                           /\ closed_readers_' = closed_readers_)
       /\ pc = "threw" =>
            (pc' = "idle" /\ open_readers_' = open_readers_
                          /\ closed_readers_' = closed_readers_)]_vars

\* a multi-sample fetch of a known and an unknown sample has thrown
C5_Witness ==
    /\ pc = "threw"
    /\ call.op = "fetch_samples"
    /\ call.samples \cap get_samples # {}
    /\ call.samples \ get_samples # {}
    /\ open_readers_ # {}

\* C6: a reader that leaves open_readers_ has the smallest file size of the
\* readers open at that moment.
C6_EvictsSmallest ==
    [][\A p \in open_readers_ \ open_readers_' :
          \A q \in open_readers_ : file_size[p] <= file_size[q]]_vars

\* one reader has been closed and a strictly larger one stays open
C6_Witness ==
    /\ pc = "emplace"
    /\ Len(evicted) = 1
    /\ opened = <<>>
    /\ open_readers_ # {}
    /\ \A q \in open_readers_ : file_size[q] > file_size[evicted[1]]

\* C7: right after construction min(max_open_files_, N) readers are open and no
\* closed file is strictly smaller than an open one.
C7_InitialResidents ==
    (pc = "return" /\ call.op = "ReadManager") =>
        /\ Cardinality(open_readers_) = Min(max_open_files_, Cardinality(read_file_paths))
        /\ \A c \in closed_readers_ \cap read_file_paths, o \in open_readers_ :
              ~file_size_compare(c, o)

\* C8: open_readers on k paths with f free slots closes exactly max(0, k - f)
\* readers and afterwards every path of the batch is open.
C8_BatchOpen ==
    pc = "return" =>
        /\ Len(evicted) = Max(0, frame.num_requested_spaces
                                  - (max_open_files_ - frame.num_open_readers))
        /\ Range(reader_paths) \subseteq open_readers_

\* C9: one fetch_reads(samples, region) hands no path twice to make_reader.
C9_SharedSourceOpenedOnce ==
    call.op = "fetch_samples" => NoDuplicates(opened)

\* a multi-sample fetch has opened a file that holds two requested samples
C9_Witness ==
    /\ call.op = "fetch_samples"
    /\ pc = "return"
    /\ \E i \in 1..Len(opened) :
          /\ Cardinality(samples_in_file[opened[i]] \cap call.samples) >= 2
          /\ opened[i] \in open_readers_

\* the two-file scenario: room for one reader, a first fetch whose candidates
\* are the larger file alone, a second whose candidates are the smaller alone
AfterLargerThenSmaller(larger, smaller) ==
    /\ pc = "idle"
    /\ max_open_files_ = 1
    /\ read_file_paths = {larger, smaller}
    /\ file_size_compare(smaller, larger)
    /\ history.queries = <<{larger}, {smaller}>>

\* C10: in that scenario each file has been closed exactly once, each has been
\* opened exactly once by the fetches (the smaller also by construction), and
\* the smaller file, queried last, is the one open.
C10_EvictionUnderPressure ==
    \A larger, smaller \in read_file_paths :
        AfterLargerThenSmaller(larger, smaller) =>
            /\ open_readers_ = {smaller}
            /\ history.closes[larger] = 1
            /\ history.closes[smaller] = 1
            /\ history.opens[larger] = 1
            /\ history.opens[smaller] = 1 + 1

C10_Witness ==
    \E larger, smaller \in read_file_paths : AfterLargerThenSmaller(larger, smaller)

\* the region index has been built
IndexBuilt == pc \notin {"setup", "threw"}

\* a direct query of the reader of file p for the region, all samples
DirectQuery(p, region) ==
    UNION {Range(ReaderFetchReads(p, region)[s]) : s \in DOMAIN ReaderFetchReads(p, region)}

\* C12: whenever could_reader_contain_region(p, region) is false, the reader
\* of p has no read of any sample overlapping the region (the reads of a file
\* lying inside the regions of its header).
C12_FilterSoundness ==
    IndexBuilt =>
        \A p \in read_file_paths, region \in NonEmptyRegions :
            ~could_reader_contain_region(p, region) => DirectQuery(p, region) = {}

\* a file with two indexed regions on a contig is refused for a region of
\* that contig and accepted for another, where it has reads
C12_Witness ==
    /\ IndexBuilt
    /\ \E p \in read_file_paths, miss, hit \in NonEmptyRegions :
          /\ miss.contig = hit.contig
          /\ miss.contig \in DOMAIN possible_regions_in_readers_[p]
          /\ Len(possible_regions_in_readers_[p][miss.contig]) = 2
          /\ ~could_reader_contain_region(p, miss)
          /\ could_reader_contain_region(p, hit)
          /\ DirectQuery(p, hit) # {}

\* the sub-ranges the region index holds for a file and a contig
IndexedSubRanges(p, contig) ==
    IF contig \in DOMAIN possible_regions_in_readers_[p]
    THEN Range(possible_regions_in_readers_[p][contig]) ELSE {}

\* C13: could_reader_contain_region(p, region) is false when p has no entry
\* for the region's contig, and otherwise true exactly when some sub-range
\* indexed for p and that contig overlaps [begin, end).
C13_CouldContain ==
    IndexBuilt =>
        \A p \in read_file_paths, region \in NonEmptyRegions :
            /\ region.contig \notin DOMAIN possible_regions_in_readers_[p] =>
                    ~could_reader_contain_region(p, region)
            /\ region.contig \in DOMAIN possible_regions_in_readers_[p] =>
                    (could_reader_contain_region(p, region) <=>
                        \E sub \in IndexedSubRanges(p, region.contig) :
                            sub[1] < region.end /\ region.begin < sub[2])

\* one file has no entry for a contig, and an entry for another contig with
\* a region that overlaps no sub-range and a region that overlaps one
C13_Witness ==
    /\ IndexBuilt
    /\ \E p \in read_file_paths, absent, miss, hit \in NonEmptyRegions :
          /\ absent.contig \notin DOMAIN possible_regions_in_readers_[p]
          /\ miss.contig \in DOMAIN possible_regions_in_readers_[p]
          /\ hit.contig = miss.contig
          /\ ~could_reader_contain_region(p, miss)
          /\ could_reader_contain_region(p, hit)

\* the paths an error message names, one per line after the first
PathsNamed(message) == {message[i][2] : i \in 2..Len(message)}

\* C14: when some path of the catalog does not exist construction throws, and
\* the message names every path that does not exist, once, and no other.
C14_ErrorNamesEveryBadPath ==
    /\ (existing # read_file_paths /\ pc # "setup") => pc = "threw"
    /\ (pc = "threw" /\ call.op = "ReadManager") =>
            /\ PathsNamed(error) = read_file_paths \ existing
            /\ Len(error) = 1 + Cardinality(read_file_paths \ existing)

\* construction has thrown over a catalog of two missing files and one that
\* exists
C14_Witness ==
    /\ pc = "threw"
    /\ call.op = "ReadManager"
    /\ Cardinality(read_file_paths \ existing) = 2
    /\ Cardinality(existing) = 1

\* C15: when some path of the catalog does not exist, no file is ever scanned
\* or opened: both indexes stay empty, no reader is made, every path stays in
\* closed_readers_.
C15_FailsBeforeAnyScan ==
    existing # read_file_paths =>
        /\ possible_regions_in_readers_ = <<>>
        /\ reader_paths_containing_sample_ = <<>>
        /\ open_readers_ = {}
        /\ opened = <<>>
        /\ closed_readers_ = read_file_paths

\* construction has thrown although two files of the catalog exist
C15_Witness ==
    /\ pc = "threw"
    /\ call.op = "ReadManager"
    /\ Cardinality(existing) = 2
    /\ possible_regions_in_readers_ = <<>>

\* the files a fetch of the samples over the region has to query
Candidates(samples, region) ==
    {p \in read_file_paths :
        samples_in_file[p] \cap samples # {} /\ could_reader_contain_region(p, region)}

\* the reads of sample s that overlap the region in those files
CandidateReads(s, samples, region) ==
    UNION {Range(ReadsOf(ReaderFetchReads(p, region), s)) : p \in Candidates(samples, region)}

TheSample == CHOOSE s \in call.samples : TRUE

\* C17: fetch_reads(sample, region) of a known sample returns the reads of the
\* sample that overlap the region in the files that hold the sample and pass
\* could_reader_contain_region, each read once and no other read.
C17_FetchSampleReads ==
    (pc = "return" /\ call.op = "fetch_sample") =>
        /\ Range(ReturnValue) = CandidateReads(TheSample, call.samples, call.region)
        /\ NoDuplicates(ReturnValue)

\* C18: fetch_reads(samples, region) returns for every requested sample the
\* reads of the sample that overlap the region in the files that hold a
\* requested sample and pass could_reader_contain_region, each read once.
C18_FetchSamplesReads ==
    (pc = "return" /\ call.op = "fetch_samples") =>
        \A s \in call.samples :
            /\ Range(ReadsOf(ReturnValue, s)) = CandidateReads(s, call.samples, call.region)
            /\ NoDuplicates(ReadsOf(ReturnValue, s))

\* C19: fetch_reads(sample, region) of a known sample none of whose files
\* passes could_reader_contain_region goes straight to its return with an
\* empty result, and open_readers_ and closed_readers_ are as before the call.
C19_NoCandidateNoEffect ==
    [][(/\ pc = "idle"
        /\ call'.op = "fetch_sample"
        /\ call'.samples \subseteq get_samples
        /\ Candidates(call'.samples, call'.region) = {}) =>
            /\ pc' = "return"
            /\ ReturnValue' = <<>>
            /\ open_readers_' = open_readers_
            /\ closed_readers_' = closed_readers_]_vars

\* such a fetch is about to return while the pool is full and a file of the
\* sample is closed
C19_Witness ==
    /\ pc = "return"
    /\ call.op = "fetch_sample"
    /\ call.samples \subseteq get_samples
    /\ Candidates(call.samples, call.region) = {}
    /\ Cardinality(open_readers_) = max_open_files_
    /\ \E p \in closed_readers_ \cap read_file_paths : HoldsRequestedSample(p)

\* C16: a step is the entry of fetch_reads(region) exactly when it is the
\* entry of fetch_reads(samples, region) with samples = get_samples(): the
\* same partial result, the same range handed to open_readers, the same state
\* from which both calls run on to their return.
C16_FetchRegionIsFetchAllSamples ==
    [][(pc = "idle" /\ call'.op = "fetch_samples") =>
          IF call'.samples = get_samples THEN FetchRegion /\ FetchSamples ELSE ~FetchRegion]_vars

\* a fetch over all the samples of the index, two of them, is about to return
\* after opening a file
C16_Witness ==
    /\ pc = "return"
    /\ call.op = "fetch_samples"
    /\ call.samples = get_samples
    /\ Cardinality(get_samples) = 2
    /\ opened # <<>>
    /\ DOMAIN ReturnValue # {}

\* how often a read is in a sequence of reads
Count(reads, read) == Cardinality({i \in 1..Len(reads) : reads[i] = read})

SameReads(v, w) == \A read \in Range(v) \cup Range(w) : Count(v, read) = Count(w, read)

\* two results of the same overload hold the same reads as often (the order
\* in which the files are queried is left open)
SameResult(op, v, w) ==
    IF op = "fetch_sample" THEN SameReads(v, w)
    ELSE \A s \in DOMAIN v \cup DOMAIN w : SameReads(ReadsOf(v, s), ReadsOf(w, s))

\* C11: two calls of the same fetch overload with the same arguments, one
\* right after the other, return the same reads, whatever the pool held
\* before the first.
C11_RepeatedFetchSameResult ==
    \A i \in 1..(Len(history.returns) - 1) :
        history.returns[i].call = history.returns[i + 1].call =>
            SameResult(history.returns[i].call.op, history.returns[i].value,
                       history.returns[i + 1].value)

\* make_reader has thrown inside a fetch's open_readers
OpenFailed == pc = "threw" /\ InFetch /\ it <= Len(reader_paths)

\* C20: when make_reader throws inside a fetch the exception leaves the fetch
\* with the failing path in closed_readers_ and not in open_readers_, at most
\* max_open_files_ readers open, and every path of the catalog in exactly one
\* of open_readers_ and closed_readers_.
C20_FailedOpenLeavesManagerSound ==
    OpenFailed =>
        /\ reader_paths[it] \in closed_readers_
        /\ reader_paths[it] \notin open_readers_
        /\ Cardinality(open_readers_) <= max_open_files_
        /\ \A p \in read_file_paths : (p \in open_readers_) # (p \in closed_readers_)

\* C22: once construction has built it, no step changes the list of paths
\* the sample index stores for a sample.
C22_SampleIndexReadOnly ==
    [][pc # "setup" => reader_paths_containing_sample_' = reader_paths_containing_sample_]_vars

\* the reads of one source in a sequence of reads, in the order they have there
ReadsFromSource(reads, p) == SelectSeq(reads, LAMBDA r : r.source = p)

\* the reads of source p are next to one another in the sequence
Contiguous(reads, p) ==
    \A i, j, k \in 1..Len(reads) :
        (i < j /\ j < k /\ reads[i].source = p /\ reads[k].source = p) =>
            reads[j].source = p

\* every source's reads form one block, in the order the source's reader
\* returns them
BlocksInNativeOrder(reads, sample, region) ==
    \A p \in {reads[i].source : i \in 1..Len(reads)} :
        /\ Contiguous(reads, p)
        /\ ReadsFromSource(reads, p) = ReadsOf(ReaderFetchReads(p, region), sample)

\* C24: in the sequence a fetch returns for a sample the reads of one source
\* are one contiguous block in that source's order.
C24_SourceBlocksInNativeOrder ==
    /\ (pc = "return" /\ call.op = "fetch_sample") =>
            BlocksInNativeOrder(ReturnValue, TheSample, call.region)
    /\ (pc = "return" /\ call.op = "fetch_samples") =>
            \A s \in DOMAIN ReturnValue :
                BlocksInNativeOrder(ReturnValue[s], s, call.region)

\* C25: no reader a fetch's open_readers closes belongs to a file that holds
\* a requested sample and passes could_reader_contain_region for the region.
C25_EvictsNoCandidate ==
    InFetch => \A i \in 1..Len(evicted) :
                  evicted[i] \notin Candidates(call.samples, call.region)

\* C28: is_open(p) is true exactly when the map holds a reader made for p
\* itself.
C28_IsOpenMeansOwnReader ==
    \A p \in read_file_paths : is_open(p) <=> p \in open_readers_

\* C29: the map fetch_reads(samples, region) returns has no key outside
\* samples.
C29_NoUnrequestedKey ==
    (pc = "return" /\ call.op = "fetch_samples") => DOMAIN ReturnValue \subseteq call.samples

\* the samples the headers of the catalog's files list
ScannedSamples == UNION {samples_in_file[p] : p \in read_file_paths}

\* C23: after construction and after every call get_samples() returns the
\* samples listed by some file's header, each once, and num_samples() is the
\* length of what get_samples() returns.
C23_SamplesOfTheScan ==
    IndexBuilt =>
        \A v \in get_samples_vectors :
            /\ Range(v) = ScannedSamples
            /\ NoDuplicates(v)
            /\ num_samples = Len(v)

\* a fetch has reordered the list of a sample held by two files, in a
\* catalog of two samples one of whose files holds both
C23_Witness ==
    /\ pc = "return"
    /\ call.op = "fetch_sample"
    /\ opened # <<>>
    /\ Cardinality(ScannedSamples) = 2
    /\ \E p \in read_file_paths : Cardinality(samples_in_file[p]) = 2
    /\ \E s \in get_samples : Len(reader_paths_containing_sample_[s]) >= 2

\* the candidates a fetch finds open on entry, which it queries at once
AlreadyOpenCandidates(samples, region) ==
    {p \in Candidates(samples, region) : is_open(p)}

\* C26: every path a fetch queries has its own reader in open_readers_ when
\* it is queried: the candidates found open, on entry, before any close or
\* emplace; the paths handed to open_readers, once open_readers has returned.
C26_QueriedThroughOwnReader ==
    [][/\ (pc = "idle" /\ call'.op \in {"fetch_sample", "fetch_samples"} /\ pc' # "threw") =>
            /\ AlreadyOpenCandidates(call'.samples, call'.region) \subseteq open_readers_
            /\ open_readers_' = open_readers_
       /\ (pc = "return" /\ InFetch) => Range(reader_paths) \subseteq open_readers_]_vars

\* C27: open_reader(p) on a path of closed_readers_ closes exactly the reader
\* choose_reader_to_close names when max_open_files_ readers are open, closes
\* none when fewer are open, and afterwards p is in open_readers_ and not in
\* closed_readers_.
C27_OpenReader ==
    [][(pc = "idle" /\ call'.op = "open_reader" /\ reader_paths'[1] \in closed_readers_) =>
          /\ Cardinality(open_readers_) = max_open_files_ =>
                open_readers_ \ open_readers_' = {choose_reader_to_close}
          /\ Cardinality(open_readers_) < max_open_files_ =>
                open_readers_ \subseteq open_readers_'
          /\ reader_paths'[1] \in open_readers_'
          /\ reader_paths'[1] \notin closed_readers_']_vars

\* close_readers(k) on the map m: k rounds of erasing begin(); a round on an
\* empty map that does not end the process leaves the map empty
RECURSIVE CloseSmallest(_, _)
CloseSmallest(m, k) ==
    IF k = 0 \/ m = {} THEN m ELSE CloseSmallest(MapErase(m, MapBegin(m)), k - 1)

\* open_readers' for_each on the map m
RECURSIVE EmplaceAll(_, _)
EmplaceAll(m, paths) ==
    IF paths = <<>> THEN m ELSE EmplaceAll(MapEmplace(m, Head(paths)), Tail(paths))

\* the reads of the sample from m.at(path), path by path
RECURSIVE ReadsThrough(_, _, _, _)
ReadsThrough(m, paths, sample, region) ==
    IF paths = <<>> THEN <<>>
    ELSE ReadsOf(ReaderFetchReads(MapAt(m, Head(paths)), region), sample)
            \o ReadsThrough(m, Tail(paths), sample, region)

\* where a fetch for one sample ends when it starts now with the partitioned
\* vector r: the readers open, the paths of the catalog closed (what a round
\* of close_readers on an empty map inserts left out), the sample's reads
FetchOutcome(r, sample, region) ==
    LET range == ReadersToOpen(r.last_open_reader, r.last_region_containing_reader,
                               Len(r.seq) + 1)
        batch == SubSeq(r.seq, range.first, range.last - 1)
        kept == CloseSmallest(open_readers_,
                              num_readers_to_close(Len(batch), num_open_reader_spaces))
        now_open == EmplaceAll(kept, batch)
    IN  [open |-> now_open,
         closed |-> ((closed_readers_ \cup (open_readers_ \ kept)) \ Range(batch))
                        \cap read_file_paths,
         reads |-> ReadsThrough(open_readers_, SubSeq(r.seq, 1, r.last_open_reader - 1),
                                sample, region)
                      \o ReadsThrough(now_open, batch, sample, region)]

FetchOutcomes(vectors, sample, region) ==
    {FetchOutcome(r, sample, region) : r \in UNION {Partitioned(v, region) : v \in vectors}}

\* C30: from every state between two calls, for every known sample s and
\* region, fetch_reads(s, region) and fetch_reads({s}, region) end with the
\* same readers open, the same paths closed and the same reads of s, each as
\* often.
C30_SingleSampleOverloadsAgree ==
    pc = "idle" =>
        \A s \in get_samples, region \in QueryRegions :
            \A one \in FetchOutcomes({SamplePaths(s)}, s, region),
               many \in FetchOutcomes(get_reader_paths_containing_samples({s}), s, region) :
                /\ one.open = many.open
                /\ one.closed = many.closed
                /\ SameReads(one.reads, many.reads)


\* the statements of open_readers that change open_readers_ and closed_readers_
InPoolTransition(position) == position \in {"close_readers", "emplace"}

BothIdle == pc = "idle" /\ other.pc = "idle"

\* C21: calls from several threads are serialized: no two threads are inside
\* a pool transition at once, the pool never holds more than max_open_files_
\* readers, and between calls every path is open or closed, never both.
C21_CallsSerialized ==
    /\ ~(InPoolTransition(pc) /\ InPoolTransition(other.pc))
    /\ Cardinality(open_readers_) <= max_open_files_
    /\ BothIdle => /\ open_readers_ \cap closed_readers_ = {}
                   /\ open_readers_ \cup closed_readers_ = read_file_paths

InOpenReaders == pc \in {"close_readers", "emplace", "return"}

\* C31: close_readers(n) is entered with n <= |open_readers_|, so no round of
\* its loop runs choose_reader_to_close on an empty pool.
C31_EvictionOnNonEmptyPool ==
    pc = "close_readers" =>
        /\ frame.num_readers_to_close <= frame.num_open_readers
        /\ n > 0 => open_readers_ # {}

\* C32: every time open_readers is entered |open_readers_| <= max_open_files_,
\* so max_open_files_ - open_readers_.size() is the number of free slots and
\* has not wrapped.
C32_FreeSlotsNeverWrap ==
    InOpenReaders =>
        /\ frame.num_open_readers <= max_open_files_
        /\ frame.num_open_reader_spaces = max_open_files_ - frame.num_open_readers

InConstruction == pc = "setup" \/ call.op = "ReadManager"

Occurrences(s, p) == Cardinality({i \in DOMAIN s : s[i] = p})

\* the calls of make_reader(p) made so far by the constructor
Instantiations(p) ==
    Occurrences(scan.order, p) + Occurrences(opened, p)
        + (IF p \in scan.reader THEN 1 ELSE 0)

\* the readers alive right now: the scan's local and the pool's
LiveHandles == Cardinality(scan.reader) + Cardinality(open_readers_)

\* C33: when the constructor returns every source has been header-scanned
\* exactly once and make_reader has been called exactly once per source (the
\* scan reader of an initial resident is the one that stays open).
C33_OneReaderPerSource ==
    (pc = "return" /\ call.op = "ReadManager") =>
        \A p \in read_file_paths :
            /\ Occurrences(scan.order, p) = 1
            /\ Instantiations(p) = 1

\* C34: at every point of construction the live readers, the scan's and the
\* pool's together, are at most max_open_files_, the reader that an emplace
\* is about to build counted in.
C34_LiveHandlesInConstruction ==
    InConstruction =>
        /\ LiveHandles <= max_open_files_
        /\ (pc = "emplace" /\ it <= Len(reader_paths)) => LiveHandles + 1 <= max_open_files_

C34_Witness ==
    /\ pc = "emplace"
    /\ call.op = "ReadManager"
    /\ Len(scan.order) = Len(PathOrder)
    /\ Cardinality(open_readers_) = 1
    /\ max_open_files_ = 2

SortedByStart(contig_regions) ==
    \A i, j \in 1..Len(contig_regions) : i < j => contig_regions[i][1] <= contig_regions[j][1]

RegionIndexSorted ==
    \A p \in DOMAIN possible_regions_in_readers_ :
        \A c \in DOMAIN possible_regions_in_readers_[p] :
            SortedByStart(possible_regions_in_readers_[p][c])

\* C35: once setup has built the region index, every file's sub-ranges on
\* every contig are sorted ascending by start, every file has its entry, and
\* no later step (fetch, open, close, eviction) changes the index.
C35_RegionIndexSortedAndFrozen ==
    [][pc' # "setup" =>
          /\ RegionIndexSorted'
          /\ DOMAIN possible_regions_in_readers_' = read_file_paths
          /\ pc # "setup" => possible_regions_in_readers_' = possible_regions_in_readers_]_vars

\* a fetch has evicted and opened over a file whose header lists a contig's
\* regions out of order
C35_Witness ==
    /\ pc = "return"
    /\ InFetch
    /\ evicted # <<>>
    /\ opened # <<>>
    /\ \E p \in read_file_paths, c \in Contigs :
          LET on_c == SelectSeq(regions_in_file[p], LAMBDA r : r.contig = c)
          IN  /\ Len(on_c) = 2
              /\ on_c[1].begin > on_c[2].begin
              /\ possible_regions_in_readers_[p][c][1][1] < possible_regions_in_readers_[p][c][2][1]

\* C36: splice_reference(cigar, size) = splice_reference(cigar, 0, size) and
\* splice_sequence(cigar, size) = splice_sequence(cigar, 0, size).
C36_SpliceFromOffsetZero ==
    /\ cigar.op = "splice_reference" =>
          cigar.result = splice_reference_offset(cigar.cigar_string, 0, cigar.args[1])
    /\ cigar.op = "splice_sequence" =>
          cigar.result = splice_sequence_offset(cigar.cigar_string, 0, cigar.args[1])

\* the first and last position of operation i in the concatenation
SpanBegin(cigar_string, i) == sum_operation_sizes(SubSeq(cigar_string, 1, i - 1))

SpanEnd(cigar_string, i) == sum_operation_sizes(SubSeq(cigar_string, 1, i))

\* C37: for pos < sum_operation_sizes(cigar) the call returns the operation
\* whose span in the concatenation of the operations holds pos, and reads
\* nothing past the last operation.
C37_OperationAtPosition ==
    (/\ cigar.op = "get_operation_at_sequence_position"
     /\ cigar.args[1] < sum_operation_sizes(cigar.cigar_string)) =>
        \E i \in 1..Len(cigar.cigar_string) :
            /\ SpanBegin(cigar.cigar_string, i) <= cigar.args[1]
            /\ cigar.args[1] < SpanEnd(cigar.cigar_string, i)
            /\ cigar.result = cigar.cigar_string[i]

\* the positions of a contig a SearchRegions map holds
SearchedPositions(search_regions, contig) ==
    IF contig \in DOMAIN search_regions THEN PositionsOf(search_regions[contig]) ELSE {}

\* the positions of a contig the skip options name
SkippedPositions(given, contig) ==
    LET skip_regions == RegionsGiven(given, "skip_regions", "skip_regions_file")
    IN  PositionsOf({skip_regions[i] : i \in {j \in 1..Len(skip_regions) :
                                                skip_regions[j].contig = contig}})

\* C38: with no --regions and no --regions-file and at least one skip region,
\* get_search_regions returns the contigs of the reference with the skipped
\* positions removed.
C38_SearchesAllButSkipped ==
    (/\ options.op = "get_search_regions"
     /\ NoSearchOption(options.given)
     /\ RegionsGiven(options.given, "skip_regions", "skip_regions_file") # <<>>) =>
        \A c \in ReferenceContigs :
            SearchedPositions(options.result, c) =
                (0..(get_contig_size(c) - 1)) \ SkippedPositions(options.given, c)


====
